---- MODULE Spec2Model ----
(***************************************************************************)
(* VantraOrbit: the SolarSystem class of js/solar-system.js as a state     *)
(* machine: the body registry (this.planets), the asynchronous texture     *)
(* loads that fill it, the per-frame callback animate(), and the input     *)
(* handlers of setupUI().                                                  *)
(*                                                                         *)
(* Numbers.  JavaScript numbers are modelled as exact fixed-point          *)
(* integers, so sums and products are those of the reals (only sin, cos    *)
(* and the Float32Array particle positions are rounded):                   *)
(*   angles            1/100000 rad   (orbitSpeed 0.01 is 100 units of     *)
(*                                     1/10000 rad, times a time-scale in  *)
(*                                     tenths)                             *)
(*   time-scale        tenths         (1.0x is 10)                         *)
(*   lengths           1/500 world unit (Cos500/Sin500 times a distance)   *)
(*   opacities         1/1000000      (base in 1/100 times pulse in        *)
(*                                     1/10000)                            *)
(*   wall clock        milliseconds since the page was opened              *)
(***************************************************************************)
EXTENDS Integers, Sequences, FiniteSets, TLC

(* ------------------------------ bounds -------------------------------- *)
\* animate() invocations explored (the rAF loop itself never ends)
MaxFrames == 2
\* milliseconds between two displayed frames
FrameMs == 100
\* Math.random() is drawn from seeds 0..MaxSeed, one seed per load callback
MaxSeed == 0
\* particles modelled per ring particle system (the code builds 500..2000)
MaxParticles == 1
\* loads of one texture that a caller of loadPlanet may have in flight at once
MaxInFlight == 1
\* registry length up to which a caller calls loadPlanet again
MaxBodies == 3
\* WebGL context losses explored
MaxLosses == 1

\* calls of startAudio() explored
MaxStarts == 2

\* 'fetch' events the service worker handles in the explored runs
MaxEvents == 3

(* --------------------------- Math functions --------------------------- *)
\* Math.PI in 1/100000 rad
Pi == 314159

\* 500 * Math.sin(a), a in 1/100000 rad: Bhaskara's rational approximation
\* 16x(pi-x) / (5pi^2 - 4x(pi-x)) on [0, pi], x in milliradians, odd and
\* 2pi-periodic outside
Sin500(a) ==
    LET r == a % (2 * Pi)
        h == IF r >= Pi THEN r - Pi ELSE r
        x == h \div 100
        p == x * ((Pi \div 100) - x)
        s == (16 * p * 25) \div ((5 * (Pi \div 100) * (Pi \div 100) - 4 * p) \div 20)
    IN  IF r >= Pi THEN 0 - s ELSE s

\* 500 * Math.cos(a) = 500 * sin(a + pi/2)
Cos500(a) == Sin500(a + (Pi \div 2))

\* the seed under which Math.random() returns its largest values, just below 1
EdgeSeed == 9

\* Math.random() * Math.PI * 2 for the k-th draw of a callback seeded s
RandomAngle(s, k) ==
    IF s = EdgeSeed
    THEN 2 * Pi - 1
    ELSE ((s * 7 + k * 3 + 3) % 10) * ((2 * Pi) \div 10)

\* the values e.target.value the speed slider's input events carry
SliderValues == {"0", "1", "2.5", "-1"}

\* values of the #scaleSlider input: positive factors
ScaleValues == {"1", "2.5"}

\* battery.level as getBattery() may report it, in hundredths
BatteryLevels == {10, 20, 50}

\* parseFloat(e.target.value), in tenths
ParseFloat(s) ==
    CASE s = "0"   -> 0
      [] s = "1"   -> 10
      [] s = "2.5" -> 25
      [] s = "-1"  -> 0 - 10

(* ------------------------------ bodies -------------------------------- *)
\* planetData of loadAllPlanets(): distance in world units, orbitSpeed and
\* rotationSpeed in 1/10000 rad per tick
PlanetTable ==
    [ Mercury |-> [distance |-> 40,  orbitSpeed |-> 240, rotationSpeed |-> 40],
      Venus   |-> [distance |-> 70,  orbitSpeed |-> 150, rotationSpeed |-> 0 - 20],
      Earth   |-> [distance |-> 100, orbitSpeed |-> 100, rotationSpeed |-> 100],
      Mars    |-> [distance |-> 150, orbitSpeed |-> 80,  rotationSpeed |-> 90],
      Jupiter |-> [distance |-> 250, orbitSpeed |-> 20,  rotationSpeed |-> 400],
      Saturn  |-> [distance |-> 350, orbitSpeed |-> 9,   rotationSpeed |-> 380],
      Uranus  |-> [distance |-> 450, orbitSpeed |-> 4,   rotationSpeed |-> 300],
      Neptune |-> [distance |-> 550, orbitSpeed |-> 1,   rotationSpeed |-> 320] ]

PlanetNames == DOMAIN PlanetTable

\* every texture load that registers a body: the eight planets and the Moon
LoadNames == PlanetNames \cup {"Moon"}

\* the loads whose callback arrives within the explored frames; the other
\* loads are still in flight
Resolving == {"Earth", "Saturn"}

VARIABLES
    planets,         \* this.planets: the registry, in registration order
    loads,           \* per texture: the loads in flight (callback not yet run)
    saturnRings,     \* this.saturnRings (<<>> while undefined)
    sun,             \* this.sun with this.sunGlowEffects
    animationSpeed,  \* this.animationSpeed, in tenths
    isPaused,        \* this.isPaused
    followTarget,    \* this.followTarget: a registry index, 0 for null/undefined
    camera,          \* this.camera.position and this.controls.target
    context,         \* the WebGL context: lost or not, and how often it was lost
    now,             \* Date.now()
    frames,          \* animate() invocations since construction
    updateOrder,     \* names whose orbit was advanced by the last animate(), in order
    lastFrame,       \* what the last animate() did: "none" yet, "skipped" or "ran"
    planetScale,     \* this.planetScale, in tenths
    geometries,      \* per planet: the radius of the geometry each load in flight holds
    showOrbits,      \* this.showOrbits
    orbitPaths,      \* this.orbitPaths, in creation order
    followOptions,   \* the values of the options appended to #followPlanet
    starField,       \* the backdrop: texture load in flight, failures, objects made
    renderer,        \* this.renderer: "none" before construction, then the settings
                     \* it was made with, or "failed"
    alerts,          \* calls of alert()
    pendingFrames,   \* callbacks handed to requestAnimationFrame and not yet run
    battery,         \* battery.level in hundredths, -1 until getBattery() resolves
    reducedQuality,  \* window.PERFORMANCE_SETTINGS.reducedQuality
    hidden,          \* document.hidden
    dom,             \* the panels of the page: loading screen, controls, planet info
    audio,           \* the PlanetaryAudioSystem object and its pending timers
    worker           \* the service worker: cache, fetches in flight, last response

\* the fields of the scene that only the user interface and the loads write
sceneVars == <<planetScale, geometries, showOrbits, orbitPaths, followOptions, dom>>

\* the state of the page around the simulation object
pageVars == <<renderer, alerts, battery, reducedQuality, hidden, audio, worker>>

vars == <<planets, loads, saturnRings, sun, animationSpeed, isPaused, followTarget,
          camera, context, now, frames, updateOrder, lastFrame, planetScale,
          geometries, showOrbits, orbitPaths, followOptions, starField, renderer,
          alerts, pendingFrames, battery, reducedQuality, hidden, dom, audio, worker>>

\* size of planetData and of createMoon, in hundredths of a world unit
PlanetSize ==
    [ Mercury |-> 38,   Venus  |-> 95,  Earth  |-> 100, Mars    |-> 53,
      Jupiter |-> 1120, Saturn |-> 950, Uranus |-> 400, Neptune |-> 390,
      Moon    |-> 27 ]

\* the mesh scale of a new mesh: 1, as the rational n / d
UnitScale == [n |-> 1, d |-> 1]

RECURSIVE Gcd(_, _)
Gcd(a, b) == IF b = 0 THEN a ELSE Gcd(b, a % b)

\* mutant of ScaleBy: the new scale is applied without dividing by the old one
ScaleByNew(scale, newScale, oldScale) ==
    LET g == Gcd(scale.n * newScale, scale.d * 10)
    IN  [n |-> (scale.n * newScale) \div g, d |-> (scale.d * 10) \div g]

\* scaleFactor * planet.scale.x with scaleFactor = newScale / this.planetScale,
\* over the rationals, in lowest terms
ScaleBy(scale, newScale, oldScale) ==
    LET g == Gcd(scale.n * newScale, scale.d * oldScale)
    IN  [n |-> (scale.n * newScale) \div g, d |-> (scale.d * oldScale) \div g]

\* the mesh made by a load callback of loadPlanet: position (distance, 0, 0),
\* a random phase, rotation 0.  History fields, written but never read by the
\* handlers: angle0 the phase at registration, ticks the orbit advances since,
\* onlyUnit whether each of them ran at time-scale 1.0.  The geometry was made
\* when loadPlanet was called; radius is its radius in thousandths
NewPlanet(name, seed, ok, radius) ==
    [ name          |-> name,
      distance      |-> PlanetTable[name].distance,
      orbitSpeed    |-> PlanetTable[name].orbitSpeed,
      rotationSpeed |-> PlanetTable[name].rotationSpeed,
      angle         |-> RandomAngle(seed, 0),
      parentPlanet  |-> "",
      x             |-> PlanetTable[name].distance * 500,
      y             |-> 0,
      z             |-> 0,
      rotY          |-> 0,
      textured      |-> ok,
      radius        |-> radius,
      scale         |-> UnitScale,
      angle0        |-> RandomAngle(seed, 0),
      ticks         |-> 0,
      onlyUnit      |-> TRUE ]

\* the mesh made by the success callback of createMoon: position (0, 0, 0);
\* the callback makes the geometry itself, from the body scale it finds
NewMoon ==
    [ name          |-> "Moon",
      distance      |-> 8,
      orbitSpeed    |-> 360,
      rotationSpeed |-> 36,
      angle         |-> 0,
      parentPlanet  |-> "Earth",
      x             |-> 0,
      y             |-> 0,
      z             |-> 0,
      rotY          |-> 0,
      textured      |-> TRUE,
      radius        |-> PlanetSize["Moon"] * planetScale,
      scale         |-> UnitScale,
      angle0        |-> 0,
      ticks         |-> 0,
      onlyUnit      |-> TRUE ]

\* this.planets.find(p => p.userData.name === name): the first index, 0 if none
FindIndex(ps, name) ==
    IF \E i \in 1..Len(ps) : ps[i].name = name
    THEN CHOOSE i \in 1..Len(ps) :
            ps[i].name = name /\ \A j \in 1..(i - 1) : ps[j].name # name
    ELSE 0

\* mutant of AdvanceAngle: '=' written for '+='
AdvanceAngleAssign(angle, orbitSpeed, speed) == orbitSpeed * speed

\* data.angle += data.orbitSpeed * this.animationSpeed
AdvanceAngle(angle, orbitSpeed, speed) == angle + orbitSpeed * speed

\* planet.rotation.y += data.rotationSpeed * this.animationSpeed
AdvanceSpin(rotY, rotationSpeed, speed) == rotY + rotationSpeed * speed

\* mutant of OrbitUpdate: the 'if (earth)' check is missing and a Moon without
\* Earth circles the origin
OrbitUpdateUnguarded(ps, planet, speed) ==
    IF planet.name # "Moon" \/ planet.parentPlanet = "Earth"
    THEN LET a == AdvanceAngle(planet.angle, planet.orbitSpeed, speed)
             e == FindIndex(ps, "Earth")
             moon == planet.parentPlanet = "Earth"
         IN  [planet EXCEPT !.angle = a,
                            !.x = (IF moon /\ e # 0 THEN ps[e].x ELSE 0)
                                    + Cos500(a) * planet.distance,
                            !.z = (IF moon /\ e # 0 THEN ps[e].z ELSE 0)
                                    + Sin500(a) * planet.distance,
                            !.y = IF moon /\ e # 0 THEN ps[e].y ELSE planet.y,
                            !.ticks = @ + 1,
                            !.onlyUnit = @ /\ speed = 10]
    ELSE planet

\* the orbit branch of the forEach callback of animate() for one body, given
\* the registry ps as it is when the callback reaches this body
OrbitUpdate(ps, planet, speed) ==
    IF planet.parentPlanet = "Earth"
    THEN LET e == FindIndex(ps, "Earth")
         IN  IF e # 0
             THEN LET a == AdvanceAngle(planet.angle, planet.orbitSpeed, speed)
                  IN  [planet EXCEPT !.angle = a,
                                     !.x = ps[e].x + Cos500(a) * planet.distance,
                                     !.z = ps[e].z + Sin500(a) * planet.distance,
                                     !.y = ps[e].y,
                                     !.ticks = @ + 1,
                                     !.onlyUnit = @ /\ speed = 10]
             ELSE planet
    ELSE IF planet.name # "Moon"
    THEN LET a == AdvanceAngle(planet.angle, planet.orbitSpeed, speed)
         IN  [planet EXCEPT !.angle = a,
                            !.x = Cos500(a) * planet.distance,
                            !.z = Sin500(a) * planet.distance,
                            !.ticks = @ + 1,
                            !.onlyUnit = @ /\ speed = 10]
    ELSE planet

\* whether the forEach callback advances this body's orbit
OrbitUpdated(ps, planet) ==
    IF planet.parentPlanet = "Earth"
    THEN FindIndex(ps, "Earth") # 0
    ELSE planet.name # "Moon"

\* the forEach callback: orbit, then spin
UpdatePlanet(ps, planet, speed) ==
    LET o == OrbitUpdate(ps, planet, speed)
    IN  [o EXCEPT !.rotY = AdvanceSpin(o.rotY, o.rotationSpeed, speed)]

\* this.planets.forEach(...): bodies are visited in registry order and each
\* visit sees the writes of the visits before it
RECURSIVE UpdatePlanets(_, _, _)
UpdatePlanets(ps, i, speed) ==
    IF i > Len(ps)
    THEN ps
    ELSE UpdatePlanets([ps EXCEPT ![i] = UpdatePlanet(ps, ps[i], speed)], i + 1, speed)

\* the names whose orbit the forEach advances, in visiting order
RECURSIVE UpdateTrace(_, _)
UpdateTrace(ps, i) ==
    IF i > Len(ps)
    THEN <<>>
    ELSE (IF OrbitUpdated(ps, ps[i]) THEN <<ps[i].name>> ELSE <<>>)
         \o UpdateTrace(ps, i + 1)

(* --------------------------- Saturn's rings --------------------------- *)
\* ringSegments of createSaturnRings(): radii in world units, speed in
\* 1/10000 rad per tick, opacity in 1/100
RingSegments ==
    << [inner |-> 12, outer |-> 16, speed |-> 80, opacity |-> 90],
       [inner |-> 16, outer |-> 20, speed |-> 60, opacity |-> 100],
       [inner |-> 20, outer |-> 25, speed |-> 40, opacity |-> 95],
       [inner |-> 26, outer |-> 30, speed |-> 30, opacity |-> 80],
       [inner |-> 32, outer |-> 34, speed |-> 20, opacity |-> 60] >>

\* particleSystems of createEnhancedRingParticles()
ParticleSystems ==
    << [innerRadius |-> 12, outerRadius |-> 20, speed |-> 60],
       [innerRadius |-> 20, outerRadius |-> 25, speed |-> 40],
       [innerRadius |-> 26, outerRadius |-> 30, speed |-> 30],
       [innerRadius |-> 32, outerRadius |-> 34, speed |-> 20] >>

\* Math.random() in tenths, the k-th draw of a callback seeded s
Random10(s, k) == (s * 7 + k * 3) % 10

\* one element of this.saturnRings.  kind is the branch animate() takes for
\* it; rot is rotation.y for "points" and rotation.z otherwise; hasSpeed is
\* the truth of userData.rotationSpeed; opacityNaN marks a material opacity
\* that is NaN; particles holds position (1/5000000 world unit) and velocity
\* of each modelled particle
RingItem(kind, speed, opacity, index, segOpacity, particles) ==
    [ kind |-> kind, hasSpeed |-> speed # 0, rotationSpeed |-> speed, rot |-> 0,
      opacity |-> opacity, opacityNaN |-> FALSE, index |-> index,
      segOpacity |-> segOpacity, particles |-> particles ]

\* create3DRingSegment: the ring mesh, then addRingSubsurfaceEffect: its glow
\* (rotationSpeed = segment.speed * 0.7, opacity 0.15, no userData.index)
SegmentItems(i) ==
    << RingItem("ring", RingSegments[i].speed, RingSegments[i].opacity * 10000,
                i - 1, RingSegments[i].opacity, <<>>),
       RingItem("glow", (RingSegments[i].speed * 7) \div 10, 150000, 0 - 1, 0, <<>>) >>

\* createEnhancedRingGaps: two bands, rotationSpeed 0.0035
GapItems ==
    << RingItem("gap", 35, 100000, 0 - 1, 0, <<>>),
       RingItem("gap", 35, 50000, 0 - 1, 0, <<>>) >>

\* one particle of system j: angle, radius and orbital speed are random
Particle(j, seed, k) ==
    LET sys     == ParticleSystems[j]
        angle   == RandomAngle(seed, 3 * k + j)
        radius  == sys.innerRadius * 10
                   + Random10(seed, 3 * k + j + 1) * (sys.outerRadius - sys.innerRadius)
        orbital == sys.speed * (50 + Random10(seed, 3 * k + j + 2))
    IN  [ x  |-> Cos500(angle) * radius * 1000,
          z  |-> Sin500(angle) * radius * 1000,
          vx |-> (0 - Sin500(angle)) * orbital,
          vz |-> Cos500(angle) * orbital ]

\* createEnhancedRingParticles: four Points objects, opacity 0.8
PointsItems(seed) ==
    [ j \in 1..Len(ParticleSystems) |->
        RingItem("points", ParticleSystems[j].speed, 800000, 0 - 1, 0,
                 [k \in 1..MaxParticles |-> Particle(j, seed, k)]) ]

\* createRingLightingEffects: the rim light has no userData.rotationSpeed
RimItem == RingItem("rim", 0, 30000, 0 - 1, 0, <<>>)

\* createSaturnRings: this.saturnRings after loadRingTextures()
NewSaturnRings(seed) ==
    SegmentItems(1) \o SegmentItems(2) \o SegmentItems(3) \o SegmentItems(4)
    \o SegmentItems(5) \o GapItems \o PointsItems(seed) \o <<RimItem>>

\* the pulse factor sin(angle) * 0.1 + 0.9, in 1/10000
Pulse(angle) == Sin500(angle) * 2 + 9000

\* mutant of AdvanceRing: the segment turns the other way
AdvanceRingBack(rot, rotationSpeed, speed) == rot - rotationSpeed * speed

\* ring.rotation += ring.userData.rotationSpeed * this.animationSpeed
AdvanceRing(rot, rotationSpeed, speed) == rot + rotationSpeed * speed

\* positions[i] += velocities[i] * this.animationSpeed * 0.1, stored in a
\* Float32Array (the quotient is rounded down to the position unit)
MoveParticle(p, speed) ==
    [p EXCEPT !.x = p.x + ((p.vx * speed) \div 5000),
              !.z = p.z + ((p.vz * speed) \div 5000)]

\* the saturnRings.forEach callback of animate() for one element at wall
\* clock t
UpdateRing(ring, speed, t) ==
    IF ~ring.hasSpeed
    THEN ring
    ELSE LET r == [ring EXCEPT !.rot = AdvanceRing(ring.rot, ring.rotationSpeed, speed)]
         IN  CASE ring.kind = "points" ->
                    [r EXCEPT !.particles =
                        [k \in DOMAIN ring.particles |-> MoveParticle(ring.particles[k], speed)]]
               [] ring.kind = "glow" ->
                    \* Math.sin(Date.now() * 0.001 + undefined) is NaN
                    [r EXCEPT !.opacityNaN = TRUE]
               [] ring.kind = "ring" ->
                    [r EXCEPT !.opacity =
                        ring.segOpacity * Pulse(t * 50 + ring.index * 100000)]
               [] OTHER -> r

\* the ring branch runs once for every registry entry named Saturn
RECURSIVE UpdateRings(_, _, _, _)
UpdateRings(rings, n, speed, t) ==
    IF n = 0
    THEN rings
    ELSE UpdateRings([i \in DOMAIN rings |-> UpdateRing(rings[i], speed, t)], n - 1, speed, t)

SaturnCount(ps) == Cardinality({i \in 1..Len(ps) : ps[i].name = "Saturn"})

(* ------------------------------ the Sun ------------------------------- *)
\* baseOpacity of the four glow shells, in 1/100
SunGlowBase == <<40, 25, 15, 5>>

\* createSun + createSunGlowEffects: this.sun and this.sunGlowEffects
NewSun ==
    [ loaded |-> TRUE, rotY |-> 0,
      glow |-> [i \in 1..4 |-> [opacity |-> SunGlowBase[i] * 10000, rotX |-> 0, rotY |-> 0]] ]

NoSun == [ loaded |-> FALSE, rotY |-> 0, glow |-> <<>> ]

\* glow.material.opacity = baseOpacity * (sin(time * pulseSpeed) * 0.1 + 0.9)
\* with time = Date.now() * 0.001 and pulseSpeed = 0.5 + index * 0.2
GlowOpacity(i, t) == SunGlowBase[i] * Pulse(t * (5 + 2 * (i - 1)) * 10)

\* the Sun block of animate()
UpdateSun(s, speed, t) ==
    IF ~s.loaded
    THEN s
    ELSE [ loaded |-> TRUE,
           rotY   |-> s.rotY + 50 * speed,
           glow   |-> [i \in 1..4 |->
                        [ opacity |-> GlowOpacity(i, t),
                          rotY    |-> s.glow[i].rotY + (10 + 5 * (i - 1)) * speed,
                          rotX    |-> s.glow[i].rotX + (5 + 2 * (i - 1)) * speed ]] ]

(* ----------------------------- the camera ----------------------------- *)
\* 20^e
RECURSIVE Pow20(_)
Pow20(e) == IF e = 0 THEN 1 ELSE 20 * Pow20(e - 1)

\* camera.position.set(0, 100, 300); controls.target is the origin.  The
\* position is the rational (x, y, z) / 20^e in length units, so that lerp
\* is exact
InitCamera == [ x |-> 0, y |-> 100 * 500, z |-> 300 * 500, e |-> 0,
                tx |-> 0, ty |-> 0, tz |-> 0 ]

\* mutant of LerpCoord: the camera is copied onto the goal (lerp factor 1)
LerpCoordSnap(n, g, e) == 20 * g * Pow20(e)

\* Vector3.lerp, one coordinate: c += (g - c) * 0.05, that is (19c + g) / 20,
\* on the numerator n of c = n / 20^e; the result is over 20^(e + 1)
LerpCoord(n, g, e) == 19 * n + g * Pow20(e)

\* the follow block of animate(): offset (50, 30, 50), lerp factor 0.05,
\* controls.target.copy(target.position)
FollowCamera(c, target) ==
    [ x  |-> LerpCoord(c.x, target.x + 50 * 500, c.e),
      y  |-> LerpCoord(c.y, target.y + 30 * 500, c.e),
      z  |-> LerpCoord(c.z, target.z + 50 * 500, c.e),
      e  |-> c.e + 1,
      tx |-> target.x, ty |-> target.y, tz |-> target.z ]

\* mutant of SkipFrame: the pause check is missing
SkipFrameNever == FALSE

\* if (this.isPaused) return;
SkipFrame == isPaused

(* ----------------------------- the backdrop --------------------------- *)
\* createStarField() has started the load of textures/stars_milky_way_8k.jpg.
\* pending is the texture whose load is in flight, started the loads started
\* so far in order, failed the textures whose error callback ran, backdrops
\* the objects added to the scene; starSphere says that this.starSphere is set
InitStarField ==
    [ pending    |-> "8k",
      started    |-> <<"8k">>,
      failed     |-> {},
      backdrops  |-> <<>>,
      starSphere |-> FALSE,
      rotY       |-> 0 ]

\* before createStarField() is called
NoStarField ==
    [ pending    |-> "none",
      started    |-> <<>>,
      failed     |-> {},
      backdrops  |-> <<>>,
      starSphere |-> FALSE,
      rotY       |-> 0 ]

\* createStarSphere(texture): one mesh, kept in this.starSphere
CreateStarSphere(sf) ==
    [sf EXCEPT !.pending = "none",
               !.backdrops = Append(@, "sphere"),
               !.starSphere = TRUE]

\* createProceduralStars(): one THREE.Points, this.starSphere stays unset
CreateProceduralStars(sf) ==
    [sf EXCEPT !.pending = "none",
               !.backdrops = Append(@, "points")]

\* mutant of AfterStarTexture: the error callback of the 8K load makes the
\* procedural stars at once and still tries the 2K texture
AfterStarTextureEager(sf, ok) ==
    IF ok
    THEN CreateStarSphere(sf)
    ELSE IF sf.pending = "8k"
    THEN [sf EXCEPT !.pending = "2k",
                    !.started = Append(@, "2k"),
                    !.failed = @ \cup {"8k"},
                    !.backdrops = Append(@, "points")]
    ELSE CreateProceduralStars([sf EXCEPT !.failed = @ \cup {sf.pending}])

\* the callbacks of the two loader.load calls of createStarField
AfterStarTexture(sf, ok) ==
    IF ok
    THEN CreateStarSphere(sf)
    ELSE IF sf.pending = "8k"
    THEN [sf EXCEPT !.pending = "2k",
                    !.started = Append(@, "2k"),
                    !.failed = @ \cup {"8k"}]
    ELSE CreateProceduralStars([sf EXCEPT !.failed = @ \cup {sf.pending}])

\* this.starSphere.rotation.y += 0.0001 * this.animationSpeed
RotateStarSphere(sf, speed) ==
    IF sf.starSphere THEN [sf EXCEPT !.rotY = @ + speed] ELSE sf

(* ------------------------- guides and options ------------------------- *)
\* createOrbitPath(distance): a visible ring pushed to this.orbitPaths
CreateOrbitPath(paths, distance) ==
    Append(paths, [distance |-> distance, visible |-> TRUE])

\* this.orbitPaths.forEach(orbit => orbit.visible = this.showOrbits)
ShowOrbitPaths(paths, show) ==
    [i \in 1..Len(paths) |-> [paths[i] EXCEPT !.visible = show]]

\* mutant of AddOption: the option is never appended
AddOptionNever(options, name) == options

\* followSelect.appendChild(option) with option.value = name
AddOption(options, name) == Append(options, name)

\* this.planets.forEach(planet => planet.scale.setScalar(scaleFactor * planet.scale.x))
ScalePlanets(ps, newScale, oldScale) ==
    [i \in 1..Len(ps) |-> [ps[i] EXCEPT !.scale = ScaleBy(@, newScale, oldScale)]]

\* a sequence without its k-th element
RemoveAt(s, k) == SubSeq(s, 1, k - 1) \o SubSeq(s, k + 1, Len(s))

(* --------------------------- the renderer ----------------------------- *)
\* the two attempts of the constructor at new THREE.WebGLRenderer(...)
CreateRenderer(primary, fallback) ==
    IF primary THEN "primary" ELSE IF fallback THEN "fallback" ELSE "failed"

\* mutant of InitRuns: the catch block of the second attempt does not return
InitRunsAlways(r) == TRUE

\* whether the constructor reaches this.init(): the catch block of the second
\* attempt returns from the constructor
InitRuns(r) == r # "failed"

\* mutant of RequestFrame: animate() does not request its successor
RequestFrameNever(pending) == pending

\* requestAnimationFrame(() => this.animate()): one more callback is pending
RequestFrame(pending) == pending + 1

(* ------------------------------ the panels ---------------------------- *)
\* the page before any planet promise has resolved: the loading screen is
\* shown.  resolved holds the planets whose promise of loadAllPlanets has
\* resolved, info the name showPlanetInfo wrote last
InitDom ==
    [ resolved      |-> {},
      loadingHidden |-> FALSE,
      controlsShown |-> FALSE,
      info          |-> "" ]

\* mutant of AllResolved: the first promise to resolve ends the wait
AllResolvedAny(resolved) == resolved # {}

\* await Promise.all(loadPromises): every promise of planetData has resolved
AllResolved(resolved) == resolved = PlanetNames

\* resolve(planet) in a callback of loadPlanet, and the finally block of
\* loadAllPlanets once Promise.all has settled
PromiseResolved(d, name) ==
    LET r == d.resolved \cup {name}
    IN  IF AllResolved(r) /\ ~AllResolved(d.resolved)
        THEN [d EXCEPT !.resolved = r, !.loadingHidden = TRUE, !.controlsShown = TRUE]
        ELSE [d EXCEPT !.resolved = r]

(* ------------------------------ the audio ----------------------------- *)
\* volume of planetConfigs, in hundredths
AudioConfigs ==
    [ mercury |-> 15, venus  |-> 18, earth  |-> 25, mars    |-> 12,
      jupiter |-> 30, saturn |-> 22, uranus |-> 15, neptune |-> 18 ]

\* Object.entries(this.planetConfigs): insertion order
AudioOrder ==
    << "mercury", "venus", "earth", "mars", "jupiter", "saturn", "uranus", "neptune" >>

\* the object the constructor leaves.  gain is the last target given to each
\* planet's gain node, in thousandths; timers holds, for every startAudio()
\* so far, the index of its next fade-in timer to fire (past the last index
\* when all have fired)
NewAudioSystem ==
    [ isInitialized |-> FALSE,
      isPlaying     |-> FALSE,
      gain          |-> [n \in DOMAIN AudioConfigs |-> 0],
      timers        |-> <<>> ]

\* the setTimeout callback of startAudio for one planet: the target becomes
\* config.volume * 0.3, whatever isPlaying is by then
FadeIn(a, name) == [a EXCEPT !.gain[name] = AudioConfigs[name] * 3]

\* stopAudio(): every target becomes 0; pending timers are not cleared
FadeOutAll(a) ==
    [a EXCEPT !.isPlaying = FALSE,
              !.gain = [n \in DOMAIN AudioConfigs |-> 0]]

\* startAudio(): one timer per planet, staggered by 200 ms
StartTimers(a) ==
    [a EXCEPT !.isPlaying = TRUE,
              !.timers = Append(@, 1)]

(* -------------------------- the service worker ------------------------ *)
\* a request to another origin that is not precached
CrossOrigin == "https://other.origin/asset"

\* the requests handled in the explored runs: a precached texture, the 2K
\* backdrop of createStarField (same origin, not precached) and a request to
\* another origin
Requests == {"./textures/earth.jpg", "./textures/stars_milky_way.jpg", CrossOrigin}

\* urlsToCache, as far as requested
UrlsToCache == {"./textures/earth.jpg"}

\* response.status and response.type as fetch() may resolve
Statuses == {0, 200, 404}

ResponseTypes == {"basic", "cors", "opaque"}

\* the worker after 'install': cache.addAll(urlsToCache) has stored the
\* precached files.  inflight holds the requests whose fetch() has not
\* resolved, puts the cache.put calls not yet performed, network counts the
\* calls of fetch(), events the 'fetch' events handled, request is the url of
\* the last event.request, last the response given to the page last
InstalledWorker ==
    [ cache    |-> {[url |-> u, status |-> 200, type |-> "basic", by |-> "install"] :
                       u \in UrlsToCache},
      inflight |-> <<>>,
      puts     |-> {},
      network  |-> 0,
      events   |-> 0,
      request  |-> "",
      last     |-> [url |-> "", from |-> "none", status |-> 0, type |-> ""] ]

\* caches.match(event.request): whether some cached response matches
CacheHit(w, url) == \E e \in w.cache : e.url = url

\* the response caches.match resolves with
CachedResponse(w, url) == CHOOSE e \in w.cache : e.url = url

\* mutant of Cacheable: every response of the network is stored
CacheableAlways(status, type) == TRUE

\* the negation of: !response || response.status !== 200 || response.type !== 'basic'
Cacheable(status, type) == status = 200 /\ type = "basic"

(* ------------------------------ actions ------------------------------- *)
\* the state the constructor leaves: init() has started every load, has run
\* animate() once on the empty scene and has scheduled the next frame
Init ==
    /\ planets = <<>>
    /\ loads = [n \in LoadNames \cup {"Sun"} |-> 1]
    /\ saturnRings = <<>>
    /\ sun = NoSun
    /\ animationSpeed = 10
    /\ isPaused = FALSE
    /\ followTarget = 0
    /\ camera = InitCamera
    /\ context = [lost |-> FALSE, losses |-> 0]
    /\ now = 0
    /\ frames = 0
    /\ updateOrder = <<>>
    /\ lastFrame = "none"
    /\ planetScale = 30
    /\ geometries = [n \in PlanetNames |-> <<PlanetSize[n] * 30>>]
    /\ showOrbits = TRUE
    /\ orbitPaths = <<>>
    /\ followOptions = <<>>
    /\ starField = InitStarField
    /\ renderer = "primary"
    /\ alerts = 0
    /\ pendingFrames = 1
    /\ battery = 0 - 1
    /\ reducedQuality = FALSE
    /\ hidden = FALSE
    /\ dom = InitDom
    /\ audio = NewAudioSystem
    /\ worker = InstalledWorker

\* the page after DOMContentLoaded and before the 'load' event of the window:
\* MobileOptimizations is constructed, no SolarSystem object exists
InitPage ==
    /\ planets = <<>>
    /\ loads = [n \in LoadNames \cup {"Sun"} |-> 0]
    /\ saturnRings = <<>>
    /\ sun = NoSun
    /\ animationSpeed = 10
    /\ isPaused = FALSE
    /\ followTarget = 0
    /\ camera = InitCamera
    /\ context = [lost |-> FALSE, losses |-> 0]
    /\ now = 0
    /\ frames = 0
    /\ updateOrder = <<>>
    /\ lastFrame = "none"
    /\ planetScale = 30
    /\ geometries = [n \in PlanetNames |-> <<>>]
    /\ showOrbits = TRUE
    /\ orbitPaths = <<>>
    /\ followOptions = <<>>
    /\ starField = NoStarField
    /\ renderer = "none"
    /\ alerts = 0
    /\ pendingFrames = 0
    /\ battery = 0 - 1
    /\ reducedQuality = FALSE
    /\ hidden = FALSE
    /\ dom = InitDom
    /\ audio = NewAudioSystem
    /\ worker = InstalledWorker

\* the 'load' listener of the window: new SolarSystem().  With a renderer the
\* constructor runs init(), which starts every load and the frame loop; with
\* none it alerts and returns
Construct(primary, fallback) ==
    /\ renderer = "none"
    /\ renderer' = CreateRenderer(primary, fallback)
    /\ alerts' = IF renderer' = "failed" THEN alerts + 1 ELSE alerts
    /\ IF InitRuns(renderer')
       THEN /\ loads' = [n \in LoadNames \cup {"Sun"} |-> 1]
            /\ geometries' = [n \in PlanetNames |-> <<PlanetSize[n] * planetScale>>]
            /\ starField' = InitStarField
            /\ pendingFrames' = RequestFrame(pendingFrames)
       ELSE UNCHANGED <<loads, geometries, starField, pendingFrames>>
    /\ UNCHANGED <<planets, saturnRings, sun, animationSpeed, isPaused, followTarget,
                   camera, context, now, frames, updateOrder, lastFrame, planetScale,
                   showOrbits, orbitPaths, followOptions, battery, reducedQuality,
                   hidden, dom, audio, worker>>

\* the body of either callback of loader.load in loadPlanet (success: ok,
\* error: ~ok): push the mesh, for Saturn build the rings, make the orbit
\* guide if guides are shown, append the option
RegisterPlanet(name, ok, seed, radius) ==
    /\ planets' = Append(planets, NewPlanet(name, seed, ok, radius))
    /\ saturnRings' = IF name = "Saturn" THEN NewSaturnRings(seed) ELSE saturnRings
    /\ orbitPaths' = IF showOrbits
                     THEN CreateOrbitPath(orbitPaths, PlanetTable[name].distance)
                     ELSE orbitPaths
    /\ followOptions' = AddOption(followOptions, name)

\* a callback of loader.load in loadPlanet arrives, for any of the loads of
\* this texture in flight
LoadPlanetDone(name, ok, seed) ==
    /\ name \in PlanetNames
    /\ loads[name] > 0
    /\ loads' = [loads EXCEPT ![name] = @ - 1]
    /\ \E k \in 1..Len(geometries[name]) :
          /\ RegisterPlanet(name, ok, seed, geometries[name][k])
          /\ geometries' = [geometries EXCEPT ![name] = RemoveAt(@, k)]
          /\ dom' = IF k = 1 THEN PromiseResolved(dom, name) ELSE dom
    /\ UNCHANGED <<sun, animationSpeed, isPaused, followTarget, camera, context,
                   now, frames, updateOrder, lastFrame, planetScale, showOrbits,
                   starField, pendingFrames>>
    /\ UNCHANGED pageVars

\* a callback of loader.load in createMoon arrives: only success registers
LoadMoonDone(ok) ==
    /\ loads["Moon"] > 0
    /\ loads' = [loads EXCEPT !["Moon"] = @ - 1]
    /\ planets' = IF ok THEN Append(planets, NewMoon) ELSE planets
    /\ followOptions' = IF ok THEN AddOption(followOptions, "Moon") ELSE followOptions
    /\ UNCHANGED <<saturnRings, sun, animationSpeed, isPaused, followTarget, camera,
                   context, now, frames, updateOrder, lastFrame, planetScale,
                   geometries, showOrbits, orbitPaths, starField, pendingFrames, dom>>
    /\ UNCHANGED pageVars

\* a callback of loader.load in createSun arrives: success and error both
\* create this.sun and its glow shells
LoadSunDone ==
    /\ loads["Sun"] > 0
    /\ loads' = [loads EXCEPT !["Sun"] = @ - 1]
    /\ sun' = NewSun
    /\ UNCHANGED <<planets, saturnRings, animationSpeed, isPaused, followTarget,
                   camera, context, now, frames, updateOrder, lastFrame, starField,
                   pendingFrames>>
    /\ UNCHANGED <<sceneVars, pageVars>>

\* a callback of a loader.load of createStarField arrives
StarTextureDone(ok) ==
    /\ starField.pending # "none"
    /\ starField' = AfterStarTexture(starField, ok)
    /\ UNCHANGED <<planets, loads, saturnRings, sun, animationSpeed, isPaused,
                   followTarget, camera, context, now, frames, updateOrder, lastFrame,
                   pendingFrames>>
    /\ UNCHANGED <<sceneVars, pageVars>>

\* animate(): one displayed frame, at wall clock now'.  It runs as a pending
\* requestAnimationFrame callback and first of all requests the next one
Animate ==
    /\ pendingFrames > 0
    /\ pendingFrames' = RequestFrame(pendingFrames - 1)
    /\ frames < MaxFrames
    /\ frames' = frames + 1
    /\ now' = now + FrameMs
    /\ IF SkipFrame
       THEN /\ lastFrame' = "skipped"
            /\ UNCHANGED <<planets, saturnRings, sun, camera, updateOrder, starField>>
       ELSE /\ lastFrame' = "ran"
            /\ planets' = UpdatePlanets(planets, 1, animationSpeed)
            /\ updateOrder' = UpdateTrace(planets, 1)
            /\ saturnRings' = UpdateRings(saturnRings, SaturnCount(planets),
                                          animationSpeed, now')
            /\ sun' = UpdateSun(sun, animationSpeed, now')
            /\ starField' = RotateStarSphere(starField, animationSpeed)
            /\ camera' = IF followTarget # 0
                         THEN FollowCamera(camera, planets'[followTarget])
                         ELSE camera
    /\ UNCHANGED <<loads, animationSpeed, isPaused, followTarget, context>>
    /\ UNCHANGED <<sceneVars, pageVars>>

\* the 'input' listener of #speedSlider
SetTimeScale(value) ==
    /\ animationSpeed' = ParseFloat(value)
    /\ UNCHANGED <<planets, loads, saturnRings, sun, isPaused, followTarget, camera,
                   context, now, frames, updateOrder, lastFrame, starField,
                   pendingFrames>>
    /\ UNCHANGED <<sceneVars, pageVars>>

\* the 'input' listener of #scaleSlider
SetBodyScale(value) ==
    /\ planetScale' = ParseFloat(value)
    /\ planets' = ScalePlanets(planets, ParseFloat(value), planetScale)
    /\ UNCHANGED <<loads, saturnRings, sun, animationSpeed, isPaused, followTarget,
                   camera, context, now, frames, updateOrder, lastFrame, geometries,
                   showOrbits, orbitPaths, followOptions, starField, pendingFrames,
                   dom>>
    /\ UNCHANGED pageVars

\* the 'change' listener of #showOrbits
SetOrbitVisibility(checked) ==
    /\ showOrbits' = checked
    /\ orbitPaths' = ShowOrbitPaths(orbitPaths, checked)
    /\ UNCHANGED <<planets, loads, saturnRings, sun, animationSpeed, isPaused,
                   followTarget, camera, context, now, frames, updateOrder, lastFrame,
                   planetScale, geometries, followOptions, starField, pendingFrames,
                   dom>>
    /\ UNCHANGED pageVars

\* mutant of SetFollowTarget: clearing the selection also puts the camera back
SetFollowTargetReset(planetName) ==
    /\ followTarget' = IF planetName # "" THEN FindIndex(planets, planetName) ELSE 0
    /\ camera' = IF planetName # "" THEN camera ELSE InitCamera
    /\ UNCHANGED <<planets, loads, saturnRings, sun, animationSpeed, isPaused,
                   context, now, frames, updateOrder, lastFrame, starField,
                   pendingFrames>>
    /\ UNCHANGED <<sceneVars, pageVars>>

\* the 'change' listener of #followPlanet
SetFollowTarget(planetName) ==
    /\ followTarget' = IF planetName # "" THEN FindIndex(planets, planetName) ELSE 0
    /\ UNCHANGED <<planets, loads, saturnRings, sun, animationSpeed, isPaused, camera,
                   context, now, frames, updateOrder, lastFrame, starField,
                   pendingFrames>>
    /\ UNCHANGED <<sceneVars, pageVars>>

Pause ==
    /\ isPaused' = TRUE
    /\ UNCHANGED <<planets, loads, saturnRings, sun, animationSpeed, followTarget,
                   camera, context, now, frames, updateOrder, lastFrame, starField,
                   pendingFrames>>
    /\ UNCHANGED <<sceneVars, pageVars>>

Resume ==
    /\ isPaused' = FALSE
    /\ UNCHANGED <<planets, loads, saturnRings, sun, animationSpeed, followTarget,
                   camera, context, now, frames, updateOrder, lastFrame, starField,
                   pendingFrames>>
    /\ UNCHANGED <<sceneVars, pageVars>>

\* the 'visibilitychange' listener of mobile-optimizations.js: it pauses or
\* resumes window.solarSystemApp, which init() sets
VisibilityChange ==
    /\ hidden' = ~hidden
    /\ isPaused' = IF renderer \in {"primary", "fallback"} THEN hidden' ELSE isPaused
    /\ UNCHANGED <<planets, loads, saturnRings, sun, animationSpeed, followTarget,
                   camera, context, now, frames, updateOrder, lastFrame, starField,
                   pendingFrames, renderer, alerts, battery, reducedQuality, audio,
                   worker>>
    /\ UNCHANGED sceneVars

\* navigator.getBattery() resolves with battery.level = level / 100.  Below
\* 0.2 the callback writes window.PERFORMANCE_SETTINGS.reducedQuality, and
\* throws inside the promise when optimizePerformance() has not set
\* window.PERFORMANCE_SETTINGS (no canvas yet, or not a mobile device)
BatteryResolved(level, hasSettings) ==
    /\ battery = 0 - 1
    /\ battery' = level
    /\ reducedQuality' = IF level < 20 /\ hasSettings THEN TRUE ELSE reducedQuality
    /\ UNCHANGED <<planets, loads, saturnRings, sun, animationSpeed, isPaused,
                   followTarget, camera, context, now, frames, updateOrder, lastFrame,
                   starField, pendingFrames, renderer, alerts, hidden, audio, worker>>
    /\ UNCHANGED sceneVars

\* loadPlanet(name, ...) called by a caller other than loadAllPlanets: "a
\* reusable function to create each planet"; it makes the geometry from the
\* body scale of the moment and starts one more texture load
LoadPlanet(name) ==
    /\ name \in PlanetNames
    /\ loads[name] < MaxInFlight
    /\ Len(planets) < MaxBodies
    /\ loads' = [loads EXCEPT ![name] = @ + 1]
    /\ geometries' = [geometries EXCEPT ![name] = Append(@, PlanetSize[name] * planetScale)]
    /\ UNCHANGED <<planets, saturnRings, sun, animationSpeed, isPaused, followTarget,
                   camera, context, now, frames, updateOrder, lastFrame, planetScale,
                   showOrbits, orbitPaths, followOptions, starField, pendingFrames,
                   dom>>
    /\ UNCHANGED pageVars

\* the 'webglcontextlost' listener: event.preventDefault() and nothing else
ContextLost ==
    /\ ~context.lost
    /\ context.losses < MaxLosses
    /\ context' = [lost |-> TRUE, losses |-> context.losses + 1]
    /\ UNCHANGED <<planets, loads, saturnRings, sun, animationSpeed, isPaused,
                   followTarget, camera, now, frames, updateOrder, lastFrame,
                   starField, pendingFrames>>
    /\ UNCHANGED <<sceneVars, pageVars>>

\* this.initScene(): the class defines no such method, so the call throws a
\* TypeError inside the listener and no field of the object is written
InitScene ==
    /\ UNCHANGED <<planets, loads, saturnRings, sun, animationSpeed, isPaused,
                   followTarget, camera, now, frames, updateOrder, lastFrame,
                   starField, pendingFrames>>
    /\ UNCHANGED <<sceneVars, pageVars>>

\* the 'webglcontextrestored' listener
ContextRestored ==
    /\ context.lost
    /\ context' = [context EXCEPT !.lost = FALSE]
    /\ InitScene

\* the fields of the simulation the pointer, audio and worker handlers leave alone
coreVars == <<planets, loads, saturnRings, sun, animationSpeed, isPaused, camera,
              context, now, frames, updateOrder, lastFrame, starField, pendingFrames>>

\* showPlanetInfo(planet): the info panel names the body
ShowPlanetInfo(d, planet) == [d EXCEPT !.info = planet.name]

\* the 'click' listener of the canvas.  hit is the index in this.planets of
\* intersects[0].object, 0 when the ray meets no body: intersectObjects is given
\* this.planets and does not descend, so a hit is always a member
Click(hit) ==
    /\ renderer \in {"primary", "fallback"}
    /\ hit \in 0..Len(planets)
    /\ dom' = IF hit > 0 THEN ShowPlanetInfo(dom, planets[hit]) ELSE dom
    /\ UNCHANGED <<coreVars, followTarget, planetScale, geometries, showOrbits,
                   orbitPaths, followOptions>>
    /\ UNCHANGED pageVars

\* mutant of MobileTap: the ray descends into the children of the bodies and
\* the hit is a ring or a glow shell, which is not in this.planets
MobileTapDescends(hit) ==
    /\ renderer \in {"primary", "fallback"}
    /\ hit \in 0..Len(planets)
    /\ dom' = IF hit > 0 THEN ShowPlanetInfo(dom, planets[hit]) ELSE dom
    /\ followTarget' = IF hit > 0 THEN Len(planets) + 1 ELSE followTarget
    /\ UNCHANGED <<coreVars, planetScale, geometries, showOrbits, orbitPaths,
                   followOptions>>
    /\ UNCHANGED pageVars

\* the 'mobileTap' listener of the window: a hit also becomes the follow target
MobileTap(hit) ==
    /\ renderer \in {"primary", "fallback"}
    /\ hit \in 0..Len(planets)
    /\ dom' = IF hit > 0 THEN ShowPlanetInfo(dom, planets[hit]) ELSE dom
    /\ followTarget' = IF hit > 0 THEN hit ELSE followTarget
    /\ UNCHANGED <<coreVars, planetScale, geometries, showOrbits, orbitPaths,
                   followOptions>>
    /\ UNCHANGED pageVars

\* PlanetaryAudioSystem.initialize(): one oscillator and one gain node, at
\* gain 0, for every planet
InitializeAudio ==
    /\ ~audio.isInitialized
    /\ audio' = [audio EXCEPT !.isInitialized = TRUE]
    /\ UNCHANGED <<coreVars, followTarget, sceneVars, renderer, alerts, battery,
                   reducedQuality, hidden, worker>>

\* PlanetaryAudioSystem.startAudio()
StartAudio ==
    /\ Len(audio.timers) < MaxStarts
    /\ audio' = IF audio.isInitialized THEN StartTimers(audio) ELSE audio
    /\ UNCHANGED <<coreVars, followTarget, sceneVars, renderer, alerts, battery,
                   reducedQuality, hidden, worker>>

\* PlanetaryAudioSystem.stopAudio()
StopAudio ==
    /\ audio' = FadeOutAll(audio)
    /\ UNCHANGED <<coreVars, followTarget, sceneVars, renderer, alerts, battery,
                   reducedQuality, hidden, worker>>

\* PlanetaryAudioSystem.toggleAudio()
ToggleAudio ==
    IF audio.isPlaying THEN StopAudio ELSE StartAudio

\* the next setTimeout callback of the b-th startAudio().  The callbacks of one
\* call fire in the order of their delays (index * 200), and the callback of a
\* later call fires after the callback of the same index of an earlier call
FadeInTimer(b) ==
    /\ b \in 1..Len(audio.timers)
    /\ audio.timers[b] <= Len(AudioOrder)
    /\ b > 1 => audio.timers[b - 1] > audio.timers[b]
    /\ audio' = [FadeIn(audio, AudioOrder[audio.timers[b]]) EXCEPT !.timers[b] = @ + 1]
    /\ UNCHANGED <<coreVars, followTarget, sceneVars, renderer, alerts, battery,
                   reducedQuality, hidden, worker>>

\* PlanetaryAudioSystem.updatePlanetRotation(planetName, 1.0, isVisible): the
\* target is config.volume * (0.5 + 1.0 * 0.5) while playing and visible, else 0
UpdatePlanetRotation(planetName, isVisible) ==
    /\ audio.isInitialized
    /\ audio' = [audio EXCEPT !.gain[planetName] =
                    IF audio.isPlaying /\ isVisible
                    THEN AudioConfigs[planetName] * 10
                    ELSE 0]
    /\ UNCHANGED <<coreVars, followTarget, sceneVars, renderer, alerts, battery,
                   reducedQuality, hidden, worker>>

\* response.type of a response to a request for url: 'basic' within the
\* origin, 'cors' or 'opaque' across origins
TypesOf(url) ==
    IF url = CrossOrigin THEN {"cors", "opaque"} ELSE {"basic"}

\* the 'fetch' listener up to the resolution of caches.match: a cached
\* response is the answer, otherwise fetch(event.request) is called
FetchEvent(url) ==
    /\ worker.events < MaxEvents
    /\ worker' =
          IF CacheHit(worker, url)
          THEN [worker EXCEPT !.events = @ + 1,
                              !.request = url,
                              !.last = [url    |-> url,
                                        from   |-> "cache",
                                        status |-> CachedResponse(worker, url).status,
                                        type   |-> CachedResponse(worker, url).type]]
          ELSE [worker EXCEPT !.events = @ + 1,
                              !.request = url,
                              !.network = @ + 1,
                              !.inflight = Append(@, url)]
    /\ UNCHANGED <<coreVars, followTarget, sceneVars, renderer, alerts, battery,
                   reducedQuality, hidden, audio>>

\* the .then callback of fetch(event.request) for the k-th request in flight
NetworkResponse(k, status, type) ==
    /\ k \in 1..Len(worker.inflight)
    /\ type \in TypesOf(worker.inflight[k])
    /\ (type = "opaque") = (status = 0)
    /\ LET url == worker.inflight[k]
       IN  worker' =
              [worker EXCEPT
                 !.inflight = RemoveAt(@, k),
                 !.puts = IF Cacheable(status, type)
                          THEN @ \cup {[url |-> url, status |-> status,
                                        type |-> type, by |-> "fetch"]}
                          ELSE @,
                 !.last = [url |-> url, from |-> "network",
                           status |-> status, type |-> type]]
    /\ UNCHANGED <<coreVars, followTarget, sceneVars, renderer, alerts, battery,
                   reducedQuality, hidden, audio>>

\* fetch(event.request) rejects: the page gets a network error
NetworkError(k) ==
    /\ k \in 1..Len(worker.inflight)
    /\ worker' = [worker EXCEPT
                    !.inflight = RemoveAt(@, k),
                    !.last = [url |-> worker.inflight[k], from |-> "error",
                              status |-> 0, type |-> "error"]]
    /\ UNCHANGED <<coreVars, followTarget, sceneVars, renderer, alerts, battery,
                   reducedQuality, hidden, audio>>

\* caches.open(CACHE_NAME).then(cache => cache.put(...)) for one pending clone
CachePut ==
    /\ \E p \in worker.puts :
          worker' = [worker EXCEPT
                       !.puts = @ \ {p},
                       !.cache = {e \in @ : e.url # p.url} \cup {p}]
    /\ UNCHANGED <<coreVars, followTarget, sceneVars, renderer, alerts, battery,
                   reducedQuality, hidden, audio>>

\* the planets whose textures are small and report in the order of planetData
\* in the explored start-ups; the other loads report at any time
OrderedLoads == << "Mercury", "Venus", "Earth", "Mars", "Jupiter", "Saturn" >>

\* the planets whose texture load may fail in the explored start-ups
FailingLoads == {"Mercury", "Neptune"}

\* one callback of the initial loadPlanet(name) calls of loadAllPlanets
InitialLoadDone(name, ok) ==
    /\ ok \/ name \in FailingLoads
    /\ \A i \in 1..Len(OrderedLoads) :
          OrderedLoads[i] = name =>
             \A j \in 1..(i - 1) : OrderedLoads[j] \in dom.resolved
    /\ name \notin dom.resolved
    /\ LoadPlanetDone(name, ok, 0)

\* the page as it runs: Earth, Saturn and the Moon resolve, the user moves the
\* speed slider and the tab is hidden and shown
Next ==
    \/ \E n \in Resolving, ok \in BOOLEAN, s \in 0..MaxSeed : LoadPlanetDone(n, ok, s)
    \/ \E ok \in BOOLEAN : LoadMoonDone(ok)
    \/ Animate
    \/ \E v \in SliderValues : SetTimeScale(v)
    \/ Pause
    \/ Resume

Spec == Init /\ [][Next]_vars

\* the Sun and Saturn resolve: the layers whose opacity pulses with the wall
\* clock, under pause and resume and the time-scales 0 and 1
NextGlow ==
    \/ LoadSunDone
    \/ \E ok \in BOOLEAN, s \in 0..MaxSeed : LoadPlanetDone("Saturn", ok, s)
    \/ Animate
    \/ \E v \in {"0", "1"} : SetTimeScale(v)
    \/ Pause
    \/ Resume

SpecGlow == Init /\ [][NextGlow]_vars

\* Earth and the Moon resolve and the user picks a body to follow
NextCamera ==
    \/ \E s \in 0..MaxSeed : LoadPlanetDone("Earth", TRUE, s)
    \/ \E ok \in BOOLEAN : LoadMoonDone(ok)
    \/ Animate
    \/ \E v \in {"0", "1"} : SetTimeScale(v)
    \/ \E n \in {"", "Earth", "Moon"} : SetFollowTarget(n)
    \/ Pause
    \/ Resume

SpecCamera == Init /\ [][NextCamera]_vars

\* Earth and the Moon resolve and a caller calls loadPlanet again
NextAPI ==
    \/ \E ok \in BOOLEAN : LoadPlanetDone("Earth", ok, 0)
    \/ LoadMoonDone(TRUE)
    \/ LoadPlanet("Earth")
    \/ Animate

SpecAPI == Init /\ [][NextAPI]_vars

\* Earth and the Moon resolve and the WebGL context is lost and restored
NextContext ==
    \/ \E ok \in BOOLEAN, s \in 0..MaxSeed : LoadPlanetDone("Earth", ok, s)
    \/ \E ok \in BOOLEAN : LoadMoonDone(ok)
    \/ Animate
    \/ \E v \in {"0", "1"} : SetTimeScale(v)
    \/ ContextLost
    \/ ContextRestored

SpecContext == Init /\ [][NextContext]_vars

\* Earth and the Moon resolve while the user works every control of the panel
NextEvents ==
    \/ \E ok \in BOOLEAN, s \in 0..MaxSeed : LoadPlanetDone("Earth", ok, s)
    \/ \E ok \in BOOLEAN : LoadMoonDone(ok)
    \/ \E v \in {"0", "1"} : SetTimeScale(v)
    \/ \E v \in ScaleValues : SetBodyScale(v)
    \/ \E b \in BOOLEAN : SetOrbitVisibility(b)
    \/ \E n \in {"", "Earth", "Moon"} : SetFollowTarget(n)
    \/ Pause
    \/ Resume

SpecEvents == Init /\ [][NextEvents]_vars

\* Earth, Mars and the Moon resolve, in any order and with either outcome,
\* while the user rescales the bodies and toggles the orbit guides
NextScene ==
    \/ \E n \in {"Earth", "Mars"}, ok \in BOOLEAN, s \in 0..MaxSeed :
          LoadPlanetDone(n, ok, s)
    \/ \E ok \in BOOLEAN : LoadMoonDone(ok)
    \/ Animate
    \/ \E v \in ScaleValues : SetBodyScale(v)
    \/ \E b \in BOOLEAN : SetOrbitVisibility(b)

SpecScene == Init /\ [][NextScene]_vars

\* Earth, Mars and the Moon resolve in any order while frames run, so that a
\* frame finds any subset of them registered
NextLoading ==
    \/ \E n \in {"Earth", "Mars"}, s \in 0..MaxSeed : LoadPlanetDone(n, TRUE, s)
    \/ \E ok \in BOOLEAN : LoadMoonDone(ok)
    \/ Animate
    \/ \E v \in {"0", "1"} : SetTimeScale(v)
    \/ Pause
    \/ Resume

SpecLoading == Init /\ [][NextLoading]_vars

\* the backdrop textures resolve while frames run
NextBackdrop ==
    \/ \E ok \in BOOLEAN : StarTextureDone(ok)
    \/ \E ok \in BOOLEAN, s \in 0..MaxSeed : LoadPlanetDone("Earth", ok, s)
    \/ Animate
    \/ \E v \in SliderValues : SetTimeScale(v)
    \/ Pause
    \/ Resume

SpecBackdrop == Init /\ [][NextBackdrop]_vars

\* the page from DOMContentLoaded on: the window loads and constructs the
\* simulation, the battery promise resolves, the tab is hidden and shown
NextPage ==
    \/ \E p, f \in BOOLEAN : Construct(p, f)
    \/ \E ok \in BOOLEAN, s \in 0..MaxSeed : LoadPlanetDone("Earth", ok, s)
    \/ \E ok \in BOOLEAN : LoadMoonDone(ok)
    \/ Animate
    \/ VisibilityChange
    \/ \E l \in BatteryLevels, h \in BOOLEAN : BatteryResolved(l, h)

SpecPage == InitPage /\ [][NextPage]_vars

\* the phases: Earth starts at a drawn phase, possibly just below a full turn,
\* and the frames advance it
NextPhase ==
    \/ \E ok \in BOOLEAN, s \in (0..MaxSeed) \cup {EdgeSeed} :
          LoadPlanetDone("Earth", ok, s)
    \/ \E ok \in BOOLEAN : LoadMoonDone(ok)
    \/ Animate
    \/ \E v \in {"0", "1", "2.5"} : SetTimeScale(v)

SpecPhase == Init /\ [][NextPhase]_vars

\* the frame loop from the page's start: construction, frames, pause() and
\* resume() of the published app, visibility changes
NextLoop ==
    \/ \E p, f \in BOOLEAN : Construct(p, f)
    \/ \E ok \in BOOLEAN, s \in 0..MaxSeed : LoadPlanetDone("Earth", ok, s)
    \/ Animate
    \/ \E v \in {"0", "1"} : SetTimeScale(v)
    \/ renderer \in {"primary", "fallback"} /\ Pause
    \/ renderer \in {"primary", "fallback"} /\ Resume
    \/ VisibilityChange

SpecLoop == InitPage /\ [][NextLoop]_vars

\* the follow target: loads, selections, taps, clicks and frames
NextFollow ==
    \/ \E ok \in BOOLEAN, s \in 0..MaxSeed : LoadPlanetDone("Earth", ok, s)
    \/ \E ok \in BOOLEAN : LoadMoonDone(ok)
    \/ \E n \in {"", "Earth", "Moon", "Mars"} : SetFollowTarget(n)
    \/ \E hit \in 0..MaxBodies : MobileTap(hit)
    \/ \E hit \in 0..MaxBodies : Click(hit)
    \/ Animate

SpecFollow == Init /\ [][NextFollow]_vars

\* the audio system
NextAudio ==
    \/ InitializeAudio
    \/ StartAudio
    \/ StopAudio
    \/ ToggleAudio
    \/ \E b \in 1..MaxStarts : FadeInTimer(b)
    \/ \E v \in BOOLEAN : UpdatePlanetRotation("earth", v)

SpecAudio == Init /\ [][NextAudio]_vars

\* the service worker after installation
NextWorker ==
    \/ \E url \in Requests : FetchEvent(url)
    \/ \E k \in 1..MaxEvents, st \in Statuses, ty \in ResponseTypes :
          NetworkResponse(k, st, ty)
    \/ \E k \in 1..MaxEvents : NetworkError(k)
    \/ CachePut

SpecWorker == Init /\ [][NextWorker]_vars

\* start-up: the eight initial planet loads, the Moon, the Sun and the backdrop
NextStartup ==
    \/ \E name \in PlanetNames, ok \in BOOLEAN : InitialLoadDone(name, ok)
    \/ LoadMoonDone(TRUE)
    \/ LoadSunDone
    \/ \E ok \in BOOLEAN : StarTextureDone(ok)

\* start-up in which every planet texture load eventually reports: the browser
\* calls one of the two callbacks of each loader.load
SpecStartup ==
    /\ Init
    /\ [][NextStartup]_vars
    /\ WF_vars(\E name \in PlanetNames, ok \in BOOLEAN : InitialLoadDone(name, ok))

(* ------------------------------ claims -------------------------------- *)
\* a step that is one invocation of animate()
FrameStep == frames' = frames + 1

\* C1: a frame delivered while the scheduler is PAUSED still runs the callback
\* (it is counted as a skipped frame) and changes no body's phase, position or
\* spin, no ring rotation and no particle position, at any time-scale.
C1_PausedFrameFreezesKinematics ==
    [][(isPaused /\ FrameStep) =>
          /\ lastFrame' = "skipped"
          /\ planets' = planets
          /\ saturnRings' = saturnRings]_vars

\* two paused frames in a row with Earth, Saturn (rings, particles) and the
\* Moon registered and a time-scale of 2.5
C1_Witness ==
    /\ lastFrame = "skipped"
    /\ isPaused
    /\ frames = 2
    /\ Len(planets) = 3
    /\ saturnRings # <<>>
    /\ animationSpeed = 25

\* C2 as stated: on a paused frame the bodies are frozen, yet the opacity of
\* some sun glow shell differs from the frame before.
C2_PausedGlowStillPulses ==
    [][(isPaused /\ FrameStep /\ sun.loaded) =>
          /\ planets' = planets
          /\ \E i \in 1..4 : sun'.glow[i].opacity # sun.glow[i].opacity]_vars

\* C2 amended: a paused frame freezes the bodies and also the sun glow and the
\* rings (opacity included); on a running frame, at any time-scale, the glow
\* opacity of shell i is its base times the pulse at the frame's wall clock and
\* a main ring's opacity is its segment opacity times its pulse.
C2_GlowPulsesOnlyWhenRunning ==
    [][FrameStep =>
          IF isPaused
          THEN planets' = planets /\ sun' = sun /\ saturnRings' = saturnRings
          ELSE /\ sun.loaded =>
                    \A i \in 1..4 :
                       sun'.glow[i].opacity
                         = SunGlowBase[i] * (Sin500(now' * (3 + 2 * i) * 10) * 2 + 9000)
               /\ (saturnRings # <<>> /\ SaturnCount(planets) > 0) =>
                    \A k \in 1..Len(saturnRings) :
                       saturnRings[k].kind = "ring" =>
                          saturnRings'[k].opacity
                            = saturnRings[k].segOpacity
                              * (Sin500(now' * 50 + saturnRings[k].index * 100000) * 2 + 9000)]_vars

\* a paused frame has passed with the Sun and Saturn's rings present: the wall
\* clock has advanced and the glow opacity is not the one of the current clock
C2_Witness ==
    /\ lastFrame = "skipped"
    /\ sun.loaded
    /\ saturnRings # <<>>
    /\ now > 0
    /\ sun.glow[1].opacity # SunGlowBase[1] * (Sin500(now * 50) * 2 + 9000)

\* C3 as stated: a running frame at time-scale 0 leaves every registered
\* body's position and spin rotation as they were.
C3_ZeroScaleFixedPoint ==
    [][(~isPaused /\ animationSpeed = 0 /\ FrameStep) =>
          \A i \in 1..Len(planets) :
             /\ planets'[i].x = planets[i].x
             /\ planets'[i].y = planets[i].y
             /\ planets'[i].z = planets[i].z
             /\ planets'[i].rotY = planets[i].rotY]_vars

\* C4 as stated: after a running frame with the Moon and Earth registered the
\* Moon is at Earth's position of the end of that frame plus
\* (cos(phase) * 8, 0, sin(phase) * 8).
C4_MoonAtEarthPlusOffset ==
    [][(~isPaused /\ FrameStep /\ FindIndex(planets, "Moon") # 0
          /\ FindIndex(planets, "Earth") # 0) =>
          LET m == planets'[FindIndex(planets, "Moon")]
              e == planets'[FindIndex(planets, "Earth")]
          IN  /\ m.x = e.x + Cos500(m.angle) * 8
              /\ m.y = e.y
              /\ m.z = e.z + Sin500(m.angle) * 8]_vars

\* C5 as stated: in the update order of a frame Earth comes before the Moon,
\* whichever of the two was registered first.
C5_EarthUpdatedBeforeMoon ==
    \A i \in 1..Len(updateOrder) :
       updateOrder[i] = "Moon" => \E j \in 1..(i - 1) : updateOrder[j] = "Earth"

\* C6: a star-orbiting body all of whose n orbit advances ran at time-scale 1.0
\* has the phase it was registered with plus n times its orbit speed.
C6_PhaseLinear ==
    \A i \in 1..Len(planets) :
       (planets[i].name # "Moon" /\ planets[i].onlyUnit) =>
          planets[i].angle
            = planets[i].angle0 + planets[i].ticks * planets[i].orbitSpeed * 10

\* a planet that was advanced by every explored frame, each at time-scale 1.0
C6_Witness ==
    \E i \in 1..Len(planets) :
       /\ planets[i].name # "Moon"
       /\ planets[i].onlyUnit
       /\ planets[i].ticks = MaxFrames

\* the numerator over 20^e of goal - camera, one coordinate, for the goal
\* target + offset
GapX(c, t) == (t.x + 50 * 500) * Pow20(c.e) - c.x
GapY(c, t) == (t.y + 30 * 500) * Pow20(c.e) - c.y
GapZ(c, t) == (t.z + 50 * 500) * Pow20(c.e) - c.z

\* C7: on a running frame with a follow target the camera becomes
\* c + 0.05 * ((target + (50, 30, 50)) - c) for the target's position of that
\* frame; when the target did not move, goal - camera is multiplied by 0.95 in
\* every coordinate (19 times the numerator over a 20 times larger
\* denominator), so the distance shrinks by 0.95 and stays non-zero if it was.
C7_CameraLerp ==
    [][(~isPaused /\ FrameStep /\ followTarget # 0) =>
          LET t  == planets[followTarget]
              tt == planets'[followTarget]
          IN  /\ camera'.e = camera.e + 1
              /\ camera'.x = 20 * camera.x + GapX(camera, tt)
              /\ camera'.y = 20 * camera.y + GapY(camera, tt)
              /\ camera'.z = 20 * camera.z + GapZ(camera, tt)
              /\ (tt.x = t.x /\ tt.y = t.y /\ tt.z = t.z) =>
                    /\ GapX(camera', tt) = 19 * GapX(camera, t)
                    /\ GapY(camera', tt) = 19 * GapY(camera, t)
                    /\ GapZ(camera', tt) = 19 * GapZ(camera, t)
                    /\ GapX(camera, t) # 0 => GapX(camera', tt) # 0
                    /\ GapY(camera, t) # 0 => GapY(camera', tt) # 0
                    /\ GapZ(camera, t) # 0 => GapZ(camera', tt) # 0]_vars

\* the camera has followed the Moon for every explored frame while Earth was
\* not registered, so the target never moved, and it has not arrived
C7_Witness ==
    /\ followTarget # 0
    /\ planets[followTarget].name = "Moon"
    /\ FindIndex(planets, "Earth") = 0
    /\ camera.e = MaxFrames
    /\ GapX(camera, planets[followTarget]) # 0

\* C8 as stated: no two registered bodies have the same name.
C8_UniqueNames ==
    \A i, j \in 1..Len(planets) : planets[i].name = planets[j].name => i = j

\* C9 as stated: when the lost context is restored the registry is torn down
\* and every body's load is started again.
C9_RestoreRebuilds ==
    [][(context.lost /\ ~context'.lost) =>
          /\ planets' = <<>>
          /\ \A n \in LoadNames : loads'[n] > 0]_vars

\* C10 as stated: the time-scale a frame reads is never negative.
C10_TimeScaleNonNegative == animationSpeed >= 0

\* C11 as stated: every body whose texture load has completed, with either
\* outcome, is in the registry (a failed load registers the body with its
\* fallback color).
C11_FailedLoadStillRegisters ==
    \A n \in LoadNames : loads[n] = 0 => FindIndex(planets, n) # 0

\* C12: a running frame advances every registered star-orbiting body by
\* orbit speed times time-scale and places it on its circle, whichever bodies
\* are still missing; the Moon without Earth keeps its phase and position.
C12_TickSkipsMissingBody ==
    [][(~isPaused /\ FrameStep) =>
          /\ Len(planets') = Len(planets)
          /\ \A i \in 1..Len(planets) :
                planets[i].name # "Moon" =>
                   /\ planets'[i].angle
                        = planets[i].angle + planets[i].orbitSpeed * animationSpeed
                   /\ planets'[i].x = Cos500(planets'[i].angle) * planets[i].distance
                   /\ planets'[i].z = Sin500(planets'[i].angle) * planets[i].distance
                   /\ planets'[i].rotY
                        = planets[i].rotY + planets[i].rotationSpeed * animationSpeed
          /\ (FindIndex(planets, "Moon") # 0 /\ FindIndex(planets, "Earth") = 0) =>
                LET m == FindIndex(planets, "Moon")
                IN  /\ planets'[m].angle = planets[m].angle
                    /\ planets'[m].x = planets[m].x
                    /\ planets'[m].y = planets[m].y
                    /\ planets'[m].z = planets[m].z]_vars

\* the Moon and Mars are registered and Earth is not: every explored frame
\* advanced Mars, and a frame spun the Moon without advancing its orbit
C12_Witness ==
    /\ FindIndex(planets, "Earth") = 0
    /\ FindIndex(planets, "Moon") # 0
    /\ FindIndex(planets, "Mars") # 0
    /\ planets[FindIndex(planets, "Mars")].ticks = MaxFrames
    /\ planets[FindIndex(planets, "Moon")].rotY # 0
    /\ planets[FindIndex(planets, "Moon")].ticks = 0
    /\ loads["Earth"] > 0

\* C13: once the renderer could be created with neither the primary nor the
\* fallback settings, one message has been shown and nothing of init() ever
\* happens: no load is started, no body is registered, no frame callback is
\* pending and no frame runs.
C13_NoRendererStopsInit ==
    renderer = "failed" =>
       /\ alerts = 1
       /\ \A n \in LoadNames \cup {"Sun"} : loads[n] = 0
       /\ starField = NoStarField
       /\ planets = <<>>
       /\ pendingFrames = 0
       /\ frames = 0

\* the renderer failed, and since then the battery promise has resolved and
\* the tab was hidden
C13_Witness ==
    /\ renderer = "failed"
    /\ battery # 0 - 1
    /\ hidden

\* C14: the loads of the backdrop start in the order 8K, 2K; the 2K load is
\* started only once the 8K load has failed, the procedural stars are made
\* only once both have failed, and at most one backdrop is ever made, after
\* which no load is in flight.
C14_BackdropFallbackOrder ==
    /\ starField.started \in {<<"8k">>, <<"8k", "2k">>}
    /\ starField.started = <<"8k", "2k">> => "8k" \in starField.failed
    /\ starField.pending = "2k" => "8k" \in starField.failed
    /\ Len(starField.backdrops) <= 1
    /\ starField.backdrops = <<"points">> => starField.failed = {"8k", "2k"}
    /\ starField.backdrops # <<>> => starField.pending = "none"

\* both textures failed and the procedural stars are the backdrop
C14_Witness ==
    /\ starField.backdrops = <<"points">>
    /\ starField.failed = {"8k", "2k"}
    /\ frames > 0

\* the state the input events act on
Simulation ==
    [ animationSpeed |-> animationSpeed,
      planetScale    |-> planetScale,
      scales         |-> [i \in 1..Len(planets) |-> planets[i].scale],
      showOrbits     |-> showOrbits,
      guides         |-> [i \in 1..Len(orbitPaths) |-> orbitPaths[i].visible],
      followTarget   |-> followTarget,
      isPaused       |-> isPaused ]

\* the six handlers as functions of that state
OnTimeScale(s, v) == [s EXCEPT !.animationSpeed = ParseFloat(v)]

OnBodyScale(s, v) ==
    [s EXCEPT !.planetScale = ParseFloat(v),
              !.scales = [i \in 1..Len(s.scales) |->
                             ScaleBy(s.scales[i], ParseFloat(v), s.planetScale)]]

OnOrbitVisibility(s, b) ==
    [s EXCEPT !.showOrbits = b,
              !.guides = [i \in 1..Len(s.guides) |-> b]]

OnFollowTarget(s, ps, n) ==
    [s EXCEPT !.followTarget = IF n # "" THEN FindIndex(ps, n) ELSE 0]

OnPause(s) == [s EXCEPT !.isPaused = TRUE]

OnResume(s) == [s EXCEPT !.isPaused = FALSE]

\* C15: every step that is not a load completion is the delivery of one of
\* the six input events, and whichever event a step delivers, delivering the
\* same event again to the state it leaves changes nothing of the time-scale,
\* the body scales, the guide visibility, the follow target and the pause
\* flag.
C15_EventsIdempotent ==
    [][(loads' = loads) =>
          /\ \/ \E v \in {"0", "1"} : Simulation' = OnTimeScale(Simulation, v)
             \/ \E v \in ScaleValues : Simulation' = OnBodyScale(Simulation, v)
             \/ \E b \in BOOLEAN : Simulation' = OnOrbitVisibility(Simulation, b)
             \/ \E n \in {"", "Earth", "Moon"} :
                   Simulation' = OnFollowTarget(Simulation, planets, n)
             \/ Simulation' = OnPause(Simulation)
             \/ Simulation' = OnResume(Simulation)
          /\ \A v \in {"0", "1"} :
                Simulation' = OnTimeScale(Simulation, v)
                   => OnTimeScale(Simulation', v) = Simulation'
          /\ \A v \in ScaleValues :
                Simulation' = OnBodyScale(Simulation, v)
                   => OnBodyScale(Simulation', v) = Simulation'
          /\ \A b \in BOOLEAN :
                Simulation' = OnOrbitVisibility(Simulation, b)
                   => OnOrbitVisibility(Simulation', b) = Simulation'
          /\ \A n \in {"", "Earth", "Moon"} :
                Simulation' = OnFollowTarget(Simulation, planets, n)
                   => OnFollowTarget(Simulation', planets', n) = Simulation'
          /\ Simulation' = OnPause(Simulation) => OnPause(Simulation') = Simulation'
          /\ Simulation' = OnResume(Simulation) => OnResume(Simulation') = Simulation'
          /\ [i \in 1..Len(planets') |-> planets'[i].name]
               = [i \in 1..Len(planets) |-> planets[i].name]]_vars

\* every event has been delivered with Earth and the Moon registered: Earth,
\* registered at scale 3.0, was rescaled to 2.5 by two events, the guide is
\* hidden, the Moon is followed, the time-scale is 0 and the loop is paused
C15_Witness ==
    /\ Len(planets) = 2
    /\ planetScale = 25
    /\ \E i \in 1..Len(planets) : planets[i].scale = [n |-> 5, d |-> 6]
    /\ \E i \in 1..Len(planets) : planets[i].scale = [n |-> 5, d |-> 2]
    /\ orbitPaths # <<>>
    /\ ~showOrbits
    /\ followTarget # 0
    /\ planets[followTarget].name = "Moon"
    /\ animationSpeed = 0
    /\ isPaused

\* C16 as stated: every registered body's rendered radius, the radius of its
\* geometry times its mesh scale, is its base size times the current body
\* scale.
C16_UniformBodyScale ==
    \A i \in 1..Len(planets) :
       planets[i].radius * planets[i].scale.n
         = PlanetSize[planets[i].name] * planetScale * planets[i].scale.d

\* C17 as stated: every registered star-orbiting planet has an orbit guide,
\* and the guide's visibility is the value of the last setOrbitVisibility.
C17_EveryPlanetHasGuide ==
    \A i \in 1..Len(planets) :
       planets[i].name # "Moon" =>
          \E k \in 1..Len(orbitPaths) :
             /\ orbitPaths[k].distance = planets[i].distance
             /\ orbitPaths[k].visible = showOrbits

\* C18: a step that clears the follow target changes nothing else, so the
\* body that was followed stays registered as it was; and a running frame
\* without a follow target leaves the camera and its look-at point alone.
C18_ClearFollowOnlyClears ==
    [][/\ (followTarget # 0 /\ followTarget' = 0) =>
             /\ planets' = planets
             /\ camera' = camera
             /\ UNCHANGED <<loads, saturnRings, sun, animationSpeed, isPaused, context,
                            now, frames, updateOrder, lastFrame, planetScale,
                            geometries, showOrbits, orbitPaths, followOptions,
                            starField, pendingFrames, dom>>
       /\ (FrameStep /\ followTarget = 0) => camera' = camera]_vars

\* Earth, the only body, was followed for the first frame and the follow
\* target was then cleared: the second frame moved Earth and the camera still
\* looks at the place Earth had after the first
C18_Witness ==
    /\ followTarget = 0
    /\ Len(planets) = 1
    /\ planets[1].name = "Earth"
    /\ planets[1].ticks = 2
    /\ frames = 2
    /\ lastFrame = "ran"
    /\ camera.e = 1
    /\ camera.tx # planets[1].x

\* C19 as stated: when the battery promise resolves with a level below 0.2
\* while the loop is running, the loop is paused.
C19_BatteryCriticalPauses ==
    [][(battery = 0 - 1 /\ battery' # 0 - 1 /\ battery' < 20
          /\ renderer \in {"primary", "fallback"} /\ ~isPaused) => isPaused']_vars

\* C20: the options appended to the follow selection are the names of the
\* registered bodies, one option per body in registration order.
C20_OptionsMatchRegistry ==
    followOptions = [i \in 1..Len(planets) |-> planets[i].name]

\* Earth was registered from a failed load and Mars from a successful one,
\* the Moon's load failed: two options, none for the Moon
C20_Witness ==
    /\ Len(planets) = 2
    /\ \E i \in 1..2 : planets[i].name = "Earth" /\ ~planets[i].textured
    /\ \E i \in 1..2 : planets[i].name = "Mars" /\ planets[i].textured
    /\ loads["Moon"] = 0
    /\ Len(followOptions) = 2

\* name of every entry of spaceshipConfigs
SpaceshipNames == {"Explorer-1", "Voyager-2", "Deep-Space-1"}

\* C21 as stated: the spacecraft are among the bodies a running frame advances,
\* so every running frame visits each of them.
C21_SpacecraftScheduled ==
    lastFrame = "ran" =>
       \A n \in SpaceshipNames : \E i \in 1..Len(updateOrder) : updateOrder[i] = n

\* C22: on every running frame with Saturn registered the rotation of each main
\* ring segment changes by exactly its rotationSpeed times the time-scale, which
\* is never a decrease at a non-negative time-scale; the amount does not depend
\* on Saturn's own spin.
C22_RingRotationLinear ==
    [][(~isPaused /\ FrameStep /\ SaturnCount(planets) > 0) =>
          /\ Len(saturnRings') = Len(saturnRings)
          /\ \A k \in 1..Len(saturnRings) :
                saturnRings[k].kind = "ring" =>
                   /\ saturnRings'[k].rot
                        = saturnRings[k].rot
                          + saturnRings[k].rotationSpeed * animationSpeed
                   /\ animationSpeed >= 0 => saturnRings'[k].rot >= saturnRings[k].rot]_vars

\* Saturn is registered and every explored frame ran at time-scale 1.0: the
\* innermost segment has turned by MaxFrames times its speed, Saturn by its own
C22_Witness ==
    /\ frames = MaxFrames
    /\ SaturnCount(planets) = 1
    /\ \E k \in 1..Len(saturnRings) :
          /\ saturnRings[k].kind = "ring"
          /\ saturnRings[k].index = 0
          /\ saturnRings[k].rot = MaxFrames * saturnRings[k].rotationSpeed * 10
          /\ planets[FindIndex(planets, "Saturn")].rotY # saturnRings[k].rot

\* C23 as stated: the opacity of every pulsing layer (sun glow shells, main ring
\* segments, ring subsurface glow layers) is a number between 0.8 times its base
\* opacity and its base opacity.
C23_PulseWithinBase ==
    /\ \A k \in 1..Len(saturnRings) :
          (saturnRings[k].kind = "ring") =>
             (/\ ~saturnRings[k].opacityNaN
              /\ saturnRings[k].opacity >= saturnRings[k].segOpacity * 8000
              /\ saturnRings[k].opacity <= saturnRings[k].segOpacity * 10000)
    /\ \A k \in 1..Len(saturnRings) :
          (saturnRings[k].kind = "glow") =>
             (/\ ~saturnRings[k].opacityNaN
              /\ saturnRings[k].opacity >= 120000
              /\ saturnRings[k].opacity <= 150000)
    /\ sun.loaded =>
          (\A i \in 1..4 :
              /\ sun.glow[i].opacity >= SunGlowBase[i] * 8000
              /\ sun.glow[i].opacity <= SunGlowBase[i] * 10000)

\* C24 as stated: the stored phase of every body is in [0, 2 pi).
C24_PhaseWraps ==
    \A i \in 1..Len(planets) :
       /\ planets[i].angle >= 0
       /\ planets[i].angle < 2 * Pi

\* C25: once init() has started the loop exactly one frame callback is pending,
\* after every frame, running or paused, and after every pause() and resume();
\* before that none is.
C25_OneFramePending ==
    /\ renderer \in {"primary", "fallback"} => pendingFrames = 1
    /\ renderer \in {"none", "failed"} => pendingFrames = 0

\* a paused frame has run after pause() and the loop still has its one callback
C25_Witness ==
    /\ renderer \in {"primary", "fallback"}
    /\ isPaused
    /\ lastFrame = "skipped"
    /\ frames = MaxFrames
    /\ pendingFrames = 1

\* C26 as stated: whenever the app object exists, the pause flag is true exactly
\* when the document is hidden.
C26_PauseTracksVisibility ==
    renderer \in {"primary", "fallback"} => isPaused = hidden

\* C27: after any sequence of follow selections, taps, clicks, load completions
\* and frames the follow target is unset or a body of the registry, and
\* selecting a name no registered body has leaves following disabled.
C27_FollowTargetRegistered ==
    [][/\ followTarget' = 0 \/ followTarget' \in 1..Len(planets')
       /\ \A n \in {"Earth", "Moon", "Mars"} :
             (SetFollowTarget(n) /\ \A i \in 1..Len(planets) : planets[i].name # n)
                => followTarget' = 0]_vars

\* a tap on the second registered body made it the follow target and a frame
\* has moved the camera toward it
C27_Witness ==
    /\ Len(planets) = 2
    /\ followTarget = 2
    /\ dom.info = planets[2].name
    /\ lastFrame = "ran"
    /\ camera # InitCamera

\* C28 as stated: while the audio is stopped no planet's gain target is above
\* zero.
C28_StoppedStaysSilent ==
    ~audio.isPlaying => \A n \in DOMAIN AudioConfigs : audio.gain[n] = 0

\* C29: a 'fetch' event whose request is cached is answered from the cache
\* without a call of fetch(); on a miss fetch() is called once, and only a
\* response with status 200 and type 'basic' is put into the cache: every
\* other response is returned with the cache and the pending puts unchanged.
C29_CacheFirstBasicOnly ==
    [][/\ worker'.events = worker.events + 1 =>
             IF CacheHit(worker, worker'.request)
             THEN /\ worker'.network = worker.network
                  /\ worker'.inflight = worker.inflight
                  /\ worker'.last.from = "cache"
                  /\ worker'.last.url = worker'.request
                  /\ worker'.cache = worker.cache
                  /\ worker'.puts = worker.puts
             ELSE /\ worker'.network = worker.network + 1
                  /\ worker'.last = worker.last
       /\ \A p \in (worker'.puts \ worker.puts) \cup (worker'.cache \ worker.cache) :
             p.status = 200 /\ p.type = "basic"
       /\ (/\ Len(worker'.inflight) < Len(worker.inflight)
           /\ worker'.last.from = "network"
           /\ ~(worker'.last.status = 200 /\ worker'.last.type = "basic"))
             => (worker'.puts = worker.puts /\ worker'.cache = worker.cache)]_vars

\* a response fetched on a miss was stored and a later request for it was
\* answered from the cache; fewer calls of fetch() than events
C29_Witness ==
    /\ \E e \in worker.cache :
          /\ e.by = "fetch"
          /\ worker.last.from = "cache"
          /\ worker.last.url = e.url
    /\ worker.network < worker.events

====
